---- MODULE Spec2Model ----
(***************************************************************************)
(* Model of roc_auc_ci (assets/scripts/Python/roc_utils.py): the point     *)
(* ROC AUC of a set of (label, score) observations and its percentile      *)
(* bootstrap confidence interval.                                          *)
(*                                                                         *)
(* Numbers.  AUC values are exact rationals <<num, den>> in lowest terms   *)
(* (the code holds them in binary floating point); the float "not a        *)
(* number" is the pair NaN.  Scores are small integers: only their order   *)
(* and their ties matter to an AUC.  Labels are 0 and 1.                   *)
(*                                                                         *)
(* Libraries.  roc_auc_score (scikit-learn), RandomState.randint,          *)
(* np.sort and np.percentile (numpy) are modelled by what they compute.    *)
(* RandomState is numpy's legacy generator: the Mersenne Twister MT19937   *)
(* seeded by init_genrand, and randint draws bounded integers from its     *)
(* 32-bit outputs by masked rejection.  A 32-bit word is a pair            *)
(* <<high 16 bits, low 16 bits>>.  A generator is its seed, the outputs    *)
(* that follow the seeding (the first 64 are kept) and the number of them  *)
(* taken.                                                                  *)
(* random_state=None seeds the generator from operating-system entropy:    *)
(* nothing is known of its outputs, and randint may give any vector.       *)
(* Two library behaviours differ between releases and the                  *)
(* repository pins none; the variable build holds what the process has     *)
(* seen of them, and once seen a behaviour stays as it is.                 *)
(***************************************************************************)
EXTENDS Integers, Sequences, FiniteSets, TLC

\* ------------------------------------------------------------------ bounds
MaxN == 3
MaxScore == 1
MaxBoot == 3
MaxSeed == 2
MaxPrint == 1

\* ------------------------------------------------------- exact arithmetic
\* not a number, 0/0
NaN == <<0, 0>>

RECURSIVE GCD(_, _)
GCD(a, b) == IF b = 0 THEN a ELSE GCD(b, a % b)

Abs(x) == IF x < 0 THEN -x ELSE x

\* the rational n/d (d > 0) in lowest terms
Rat(n, d) ==
  LET g == GCD(Abs(n), d)
  IN  <<n \div g, d \div g>>

RatAdd(a, b) == Rat(a[1] * b[2] + b[1] * a[2], a[2] * b[2])
RatSub(a, b) == Rat(a[1] * b[2] - b[1] * a[2], a[2] * b[2])
RatMul(a, b) == Rat(a[1] * b[1], a[2] * b[2])
RatLE(a, b) == a[1] * b[2] <= b[1] * a[2]
RatLT(a, b) == a[1] * b[2] < b[1] * a[2]
Zero == <<0, 1>>
One == <<1, 1>>
Half == <<1, 2>>

\* comparisons of floats: every comparison with NaN is false
FloatLE(a, b) == a # NaN /\ b # NaN /\ RatLE(a, b)

Range(s) == {s[i] : i \in 1..Len(s)}

RECURSIVE SeqsUpTo(_, _)
SeqsUpTo(S, n) ==
  IF n = 0 THEN {<<>>}
  ELSE LET shorter == SeqsUpTo(S, n - 1)
       IN  shorter \cup {Append(s, x) : s \in {t \in shorter : Len(t) = n - 1}, x \in S}

\* ------------------------------------------- sklearn.metrics.roc_auc_score
\* np.unique(y): the distinct values
unique(y) == Range(y)

\* the distinct scores in decreasing order (argsort, reversed, np.diff # 0)
RECURSIVE Descending(_)
Descending(S) ==
  IF S = {} THEN <<>>
  ELSE LET m == CHOOSE x \in S : \A y \in S : y <= x
       IN  <<m>> \o Descending(S \ {m})

\* cumulative true positives at threshold t: positives scoring at least t
tps(y_true, y_score, t) ==
  Cardinality({i \in 1..Len(y_score) : y_score[i] >= t /\ y_true[i] = 1})

\* cumulative false positives at threshold t
fps(y_true, y_score, t) ==
  Cardinality({i \in 1..Len(y_score) : y_score[i] >= t /\ y_true[i] = 0})

\* _binary_clf_curve: one point <<fps, tps>> per distinct score, decreasing
binary_clf_curve(y_true, y_score) ==
  LET thr == Descending(Range(y_score))
  IN  [k \in 1..Len(thr) |->
         <<fps(y_true, y_score, thr[k]), tps(y_true, y_score, thr[k])>>]

\* roc_curve, drop_intermediate: an inner point is kept when the second
\* difference of fps or of tps is not zero there
drop_intermediate(curve) ==
  LET n == Len(curve)
      keep(k) == \/ k = 1
                 \/ k = n
                 \/ curve[k + 1][1] - 2 * curve[k][1] + curve[k - 1][1] # 0
                 \/ curve[k + 1][2] - 2 * curve[k][2] + curve[k - 1][2] # 0
      F[k \in 0..n] ==
        IF k = 0 THEN <<>>
        ELSE IF keep(k) THEN Append(F[k - 1], curve[k]) ELSE F[k - 1]
  IN  IF n > 2 THEN F[n] ELSE curve

\* roc_curve: the curve starts at (0, 0)
roc_curve(y_true, y_score) ==
  <<<<0, 0>>>> \o drop_intermediate(binary_clf_curve(y_true, y_score))

\* variant: rectangles under the right end of each step
aucRectangles(curve) ==
  LET n == Len(curve)
      nNeg == curve[n][1]
      nPos == curve[n][2]
      T[k \in 1..n] ==
        IF k = 1 THEN 0
        ELSE T[k - 1] + (curve[k][1] - curve[k - 1][1]) * (2 * curve[k][2])
  IN  Rat(T[n], 2 * nNeg * nPos)

\* auc(fpr, tpr): trapezoidal rule; fpr = fps / fps[-1], tpr = tps / tps[-1]
auc(curve) ==
  LET n == Len(curve)
      nNeg == curve[n][1]
      nPos == curve[n][2]
      T[k \in 1..n] ==
        IF k = 1 THEN 0
        ELSE T[k - 1] + (curve[k][1] - curve[k - 1][1]) * (curve[k][2] + curve[k - 1][2])
  IN  Rat(T[n], 2 * nNeg * nPos)

\* roc_auc_score(y_true, y_score).  Empty input and inconsistent lengths
\* raise ValueError.  With one class present, releases before 1.6 raise
\* ValueError and later ones warn and return NaN (one_class is "raise" or
\* "nan"); the class test precedes the length test.
roc_auc_score(y_true, y_score, one_class) ==
  IF Len(y_true) = 0 \/ Len(y_score) = 0 THEN [kind |-> "ValueError"]
  ELSE IF Cardinality(unique(y_true)) # 2
       THEN IF one_class = "nan" THEN [kind |-> "ok", val |-> NaN]
            ELSE [kind |-> "ValueError"]
  ELSE IF Len(y_true) # Len(y_score) THEN [kind |-> "ValueError"]
  ELSE [kind |-> "ok", val |-> auc(roc_curve(y_true, y_score))]

\* --------------------------------------------------- numpy.random.RandomState
\* random_state=None
NoSeed == -1

\* bitwise exclusive or of two naturals
RECURSIVE Xor(_, _)
Xor(a, b) ==
  IF a = 0 THEN b
  ELSE IF b = 0 THEN a
  ELSE ((a + b) % 2) + 2 * Xor(a \div 2, b \div 2)

\* bitwise and of two naturals
RECURSIVE And(_, _)
And(a, b) ==
  IF a = 0 \/ b = 0 THEN 0
  ELSE ((a % 2) * (b % 2)) + 2 * And(a \div 2, b \div 2)

RECURSIVE Pow2(_)
Pow2(k) == IF k = 0 THEN 1 ELSE 2 * Pow2(k - 1)

xor32(u, v) == <<Xor(u[1], v[1]), Xor(u[2], v[2])>>
and32(u, v) == <<And(u[1], v[1]), And(u[2], v[2])>>

\* u >> k
shr(u, k) ==
  IF k >= 16 THEN <<0, u[1] \div Pow2(k - 16)>>
  ELSE <<u[1] \div Pow2(k),
         ((u[1] % Pow2(k)) * Pow2(16 - k)) + (u[2] \div Pow2(k))>>

\* u << k, 32 bits kept
shl(u, k) ==
  IF k >= 16 THEN <<(u[2] % Pow2(32 - k)) * Pow2(k - 16), 0>>
  ELSE <<((u[1] % Pow2(16 - k)) * Pow2(k)) + (u[2] \div Pow2(16 - k)),
         (u[2] % Pow2(16 - k)) * Pow2(k)>>

\* (a * b) mod 2^16 for a, b below 2^16
mul16(a, b) == ((a * (b % 256)) + (((a * (b \div 256)) % 256) * 256)) % 65536

\* 1812433253 * u mod 2^32; 1812433253 = 27655 * 2^16 + 35173
mul_1812433253(u) ==
  LET p0 == 35173 * (u[2] % 256)
      p1 == 35173 * (u[2] \div 256)
      low == p0 + ((p1 % 256) * 256)
      carry == (low \div 65536) + (p1 \div 256)
  IN  <<(carry + mul16(27655, u[2]) + mul16(35173, u[1])) % 65536, low % 65536>>

\* u + i mod 2^32, i small
add32(u, i) ==
  <<(u[1] + ((u[2] + i) \div 65536)) % 65536, (u[2] + i) % 65536>>

\* init_genrand: mt[i] = 1812433253 * (mt[i-1] ^ (mt[i-1] >> 30)) + i
init_next(prev, i) == add32(mul_1812433253(xor32(prev, shr(prev, 30))), i)

RECURSIVE init_block(_, _, _)
init_block(prev, i, n) ==
  IF n = 0 THEN <<>>
  ELSE LET w == init_next(prev, i) IN <<w>> \o init_block(w, i + 1, n - 1)

RECURSIVE init_from(_)
init_from(mt) ==
  IF Len(mt) >= 624 THEN mt
  ELSE init_from(mt \o init_block(mt[Len(mt)], Len(mt),
                                  IF Len(mt) = 1 THEN 23 ELSE 24))

\* init_genrand(s): the 624 words of state that seed s fixes, mt[0] = s
init_genrand(s) == init_from(<<<<s \div 65536, s % 65536>>>>)

\* the word that replaces mt[k], from mt[k], mt[k+1] and mt[k+397]:
\* y = (mt[k] & 0x80000000) | (mt[k+1] & 0x7fffffff),
\* mt[k+397] ^ (y >> 1) ^ (0x9908b0df when y is odd)
twist(a, b, c) ==
  LET y == <<((a[1] \div 32768) * 32768) + (b[1] % 32768), b[2]>>
      mag == IF y[2] % 2 = 1 THEN <<39176, 45279>> ELSE <<0, 0>>
  IN  xor32(xor32(c, shr(y, 1)), mag)

\* tempering: y ^= y >> 11; y ^= (y << 7) & 0x9d2c5680;
\* y ^= (y << 15) & 0xefc60000; y ^= y >> 18
temper(y0) ==
  LET y1 == xor32(y0, shr(y0, 11))
      y2 == xor32(y1, and32(shl(y1, 7), <<40236, 22144>>))
      y3 == xor32(y2, and32(shl(y2, 15), <<61382, 0>>))
  IN  xor32(y3, shr(y3, 18))

\* the first 64 outputs of the generator seeded with s (the first 227 are
\* made of the seeded words alone)
RECURSIVE outputs_from(_, _, _)
outputs_from(mt, k, n) ==
  IF n = 0 THEN <<>>
  ELSE <<temper(twist(mt[k], mt[k + 1], mt[k + 397]))>>
         \o outputs_from(mt, k + 1, n - 1)

outputs(s) ==
  LET mt == init_genrand(s)
  IN  outputs_from(mt, 1, 32) \o outputs_from(mt, 33, 32)

\* the outputs for the seeds most often given to a generator: those of
\* random_state, and the 2025 of np.random.seed(2025)
mt19937 == [s \in (0..MaxSeed) \cup {2025} |-> outputs(s)]

\* a generator seeded from the entropy of the operating system, as
\* RandomState(None) is and as np.random is when the process starts: nothing
\* is known of its outputs
Unseeded == [seed |-> NoSeed, pos |-> 0, key |-> <<>>]

\* RandomState(seed) and np.random.seed(seed): the generator a seed fixes,
\* with the outputs ahead of it and the number of them taken
RandomState(seed) ==
  IF seed = NoSeed THEN Unseeded
  ELSE [seed |-> seed, pos |-> 0,
        key |-> IF seed \in DOMAIN mt19937 THEN mt19937[seed] ELSE outputs(seed)]

\* the next 32-bit output
next_uint32(state) == state.key[state.pos + 1]

\* the smallest 2^k - 1 that is at least rng
RECURSIVE gen_mask(_, _)
gen_mask(rng, m) == IF m >= rng THEN m ELSE gen_mask(rng, (2 * m) + 1)

\* word & mask as an integer, for a mask 2^k - 1 below 2^31
masked(word, mask) ==
  IF mask < 65536 THEN word[2] % (mask + 1)
  ELSE ((word[1] % ((mask \div 65536) + 1)) * 65536) + word[2]

\* one integer in 0..rng (rng > 0): outputs are masked and rejected until
\* one is at most rng
RECURSIVE bounded_uint32(_, _, _)
bounded_uint32(state, rng, mask) ==
  LET val == masked(next_uint32(state), mask)
      after == [state EXCEPT !.pos = @ + 1]
  IN  IF val <= rng THEN [val |-> val, state |-> after]
      ELSE bounded_uint32(after, rng, mask)

\* randint(low, high, size): size draws from low..high-1, and the state
\* left.  An empty draw is returned before the bounds are looked at; then
\* low >= high raises ValueError; with high - low = 1 no output is taken.
RECURSIVE randint(_, _, _, _)
randint(state, low, high, size) ==
  IF size = 0 THEN [kind |-> "ok", vals |-> <<>>, state |-> state]
  ELSE IF low >= high
       THEN [kind |-> "ValueError", vals |-> <<>>, state |-> state]
  ELSE IF high - low = 1
       THEN [kind |-> "ok", vals |-> [j \in 1..size |-> low], state |-> state]
  ELSE LET d == bounded_uint32(state, high - low - 1, gen_mask(high - low - 1, 1))
           rest == randint(d.state, low, high, size - 1)
       IN  [kind |-> "ok", vals |-> <<low + d.val>> \o rest.vals,
            state |-> rest.state]

\* a[indices], indices counted from 0 as in the code
take(a, indices) == [j \in 1..Len(indices) |-> a[indices[j] + 1]]

\* ------------------------------------------------- np.sort, np.percentile
RECURSIVE sort(_)
sort(a) ==
  IF a = <<>> THEN <<>>
  ELSE LET i == CHOOSE k \in 1..Len(a) : \A j \in 1..Len(a) : RatLE(a[k], a[j])
           rest == [j \in 1..(Len(a) - 1) |-> IF j < i THEN a[j] ELSE a[j + 1]]
       IN  <<a[i]>> \o sort(rest)

\* numpy's _lerp(a, b, t)
lerp(a, b, t) ==
  IF RatLT(t, Half) THEN RatAdd(a, RatMul(RatSub(b, a), t))
  ELSE RatSub(b, RatMul(RatSub(b, a), RatSub(One, t)))

\* variant: the position is taken among n + 1 values
virtual_index_n(n, qn, qd) == Rat(n * qn, 100 * qd)

\* the virtual index of the q-th percentile among n values, method "linear":
\* (n - 1) * q / 100, with q = qn / qd
virtual_index(n, qn, qd) == Rat((n - 1) * qn, 100 * qd)

\* np.percentile(a, q) of a non-empty array, q = qn / qd: the array is
\* ordered, then the two neighbours of the virtual index are interpolated
percentile(a, qn, qd) ==
  LET n == Len(a)
      arr == sort(a)
      vi == virtual_index(n, qn, qd)
      previous == vi[1] \div vi[2]
      next == IF previous + 1 > n - 1 THEN n - 1 ELSE previous + 1
      gamma == RatSub(vi, <<previous, 1>>)
  IN  lerp(arr[previous + 1], arr[next + 1], gamma)

\* ------------------------------------------------------------- roc_auc_ci
VARIABLES
  labels, scores, help, n_bootstrap, random_state,  \* the caller's arguments
  build,         \* the library behaviours seen so far
  np_random,     \* state of the process-wide generator np.random
  stdout,        \* the number of docstrings written to standard output
  pc,            \* "idle" between calls, then "entered", then "loop"
  other,         \* the latest invocation was given another random_state
  y_true, y_score, auc_val, rng, boot_scores,  \* locals of the invocation
  iter,          \* iterations of the loop completed
  resamples,     \* the resamples drawn by the invocation, in order
  result,        \* outcome of the latest invocation, NoOutcome while it runs
  first,         \* what the first invocation left, NoOutcome until it ends
  disturbed      \* a call with another random_state has ended since

vars == <<labels, scores, help, n_bootstrap, random_state, build, np_random,
          stdout, pc, other, y_true, y_score, auc_val, rng, boot_scores, iter,
          resamples, result, first, disturbed>>

NoOutcome == [kind |-> "no outcome"]

\* lines 44-46: the docstring is printed and None is returned
Help(out) == [kind |-> "None", stdout |-> out + 1]

\* the behaviours a library may show: the one seen before, or either
Observe(seen) == IF seen = "unseen" THEN {"nan", "raise"} ELSE {seen}

\* variant: the generator is seeded with np.random.seed(seed)
EnterSeedingGlobal(yt, ys, seed, g, one_class) ==
  LET r == roc_auc_score(yt, ys, one_class)
  IN  [kind |-> r.kind,
       auc_val |-> IF r.kind = "ok" THEN r.val ELSE NaN,
       rng |-> IF r.kind = "ok" THEN RandomState(seed) ELSE Unseeded,
       np_random |-> RandomState(seed)]

\* lines 50-53: the point AUC is computed and a private generator is
\* seeded; np.random is not touched
Enter(yt, ys, seed, g, one_class) ==
  LET r == roc_auc_score(yt, ys, one_class)
  IN  [kind |-> r.kind,
       auc_val |-> IF r.kind = "ok" THEN r.val ELSE NaN,
       rng |-> IF r.kind = "ok" THEN RandomState(seed) ELSE Unseeded,
       np_random |-> g]

\* variant: the indices are drawn with np.random.randint (np.random is read
\* as seeded with 0 when it was seeded from entropy or is past the outputs
\* kept)
DrawFromGlobal(r, g, n) ==
  LET d == randint(IF g = Unseeded \/ g.pos > 32 THEN RandomState(0) ELSE g,
                   0, n, n)
  IN  [kind |-> d.kind, indices |-> d.vals, rng |-> r, np_random |-> d.state]

\* line 56 with a seeded generator: n indices in 0..n-1 from it
Draw(r, g, n) ==
  LET d == randint(r, 0, n, n)
  IN  [kind |-> d.kind, indices |-> d.vals, rng |-> d.state, np_random |-> g]

\* line 56: what rng.randint(0, n, n) may give.  A seeded generator gives
\* one vector; one seeded from entropy may give any vector over 0..n-1.
Drawn(r, g, n) ==
  IF r.seed = NoSeed
  THEN {[kind |-> "ok", indices |-> v, rng |-> r, np_random |-> g] :
          v \in [1..n -> 0..(n - 1)]}
  ELSE {Draw(r, g, n)}

\* variant: the scores are taken in their original order
SelectUnaligned(yt, ys, indices) ==
  [sel_true |-> take(yt, indices), sel_score |-> ys]

\* lines 57 and 59: y_true[indices] and y_score[indices]
Select(yt, ys, indices) ==
  [sel_true |-> take(yt, indices), sel_score |-> take(ys, indices)]

\* variant: a one-class resample counts as an AUC of 1/2
AccumulateAll(boot, sel) ==
  IF Cardinality(unique(sel.sel_true)) < 2
  THEN [used |-> FALSE, boot_scores |-> Append(boot, Half)]
  ELSE [used |-> TRUE,
        boot_scores |-> Append(boot, roc_auc_score(sel.sel_true, sel.sel_score,
                                                   "raise").val)]

\* lines 57-60: a one-class resample is skipped, the AUC of any other is
\* appended (roc_auc_score sees two classes here)
Accumulate(boot, sel) ==
  IF Cardinality(unique(sel.sel_true)) < 2
  THEN [used |-> FALSE, boot_scores |-> boot]
  ELSE [used |-> TRUE,
        boot_scores |-> Append(boot, roc_auc_score(sel.sel_true, sel.sel_score,
                                                   "raise").val)]

\* lines 56-60 of one iteration, d being what line 56 drew or randint's
\* ValueError.  An index beyond y_true raises IndexError.
LoopBody(yt, ys, d, boot) ==
  IF d.kind # "ok"
  THEN [kind |-> d.kind, line |-> 56, rng |-> d.rng, np_random |-> d.np_random]
  ELSE IF \E j \in 1..Len(d.indices) : d.indices[j] >= Len(yt)
  THEN [kind |-> "IndexError", line |-> 57, rng |-> d.rng, np_random |-> d.np_random]
  ELSE LET sel == Select(yt, ys, d.indices)
           acc == Accumulate(boot, sel)
       IN  [kind |-> "ok", rng |-> d.rng, np_random |-> d.np_random,
            draw |-> [indices |-> d.indices,
                      sel_true |-> sel.sel_true,
                      sel_score |-> IF acc.used THEN sel.sel_score ELSE <<>>,
                      used |-> acc.used],
            boot_scores |-> acc.boot_scores]

RECURSIVE RatSum(_)
RatSum(a) == IF a = <<>> THEN Zero ELSE RatAdd(a[1], RatSum(Tail(a)))

\* variant: the middle of CI is the mean of the bootstrap distribution
FinishWithMean(point, boot, empty) ==
  LET sorted_scores == sort(boot)
  IN  IF sorted_scores = <<>>
      THEN IF empty = "nan"
           THEN [kind |-> "ok", AUC |-> point, CI |-> <<NaN, NaN, NaN>>]
           ELSE [kind |-> "IndexError", line |-> 63]
      ELSE LET ci_lower == percentile(sorted_scores, 5, 2)
               ci_upper == percentile(sorted_scores, 195, 2)
               mean == RatMul(RatSum(boot), Rat(1, Len(boot)))
           IN  [kind |-> "ok", AUC |-> point, CI |-> <<ci_lower, mean, ci_upper>>]

\* variant: the two percentiles are exchanged
FinishExchanged(point, boot, empty) ==
  LET sorted_scores == sort(boot)
  IN  IF sorted_scores = <<>>
      THEN IF empty = "nan"
           THEN [kind |-> "ok", AUC |-> point, CI |-> <<NaN, point, NaN>>]
           ELSE [kind |-> "IndexError", line |-> 63]
      ELSE LET ci_lower == percentile(sorted_scores, 195, 2)
               ci_upper == percentile(sorted_scores, 5, 2)
           IN  [kind |-> "ok", AUC |-> point, CI |-> <<ci_lower, point, ci_upper>>]

\* lines 62-66: the bounds are percentiles of the sorted distribution.  Of an
\* empty array np.percentile returns NaN or raises IndexError, by release
\* (empty is "nan" or "raise").
Finish(point, boot, empty) ==
  LET sorted_scores == sort(boot)
  IN  IF sorted_scores = <<>>
      THEN IF empty = "nan"
           THEN [kind |-> "ok", AUC |-> point, CI |-> <<NaN, point, NaN>>]
           ELSE [kind |-> "IndexError", line |-> 63]
      ELSE LET ci_lower == percentile(sorted_scores, 5, 2)
               ci_upper == percentile(sorted_scores, 195, 2)
           IN  [kind |-> "ok", AUC |-> point, CI |-> <<ci_lower, point, ci_upper>>]

\* what an invocation leaves behind when it ends
Record(res, log, boot) == [result |-> res, resamples |-> log, boot_scores |-> boot]

\* the random_state of the call that differs from the others
OtherSeed == (random_state + 1) % (MaxSeed + 1)

\* the random_state the running invocation was given
Seed == IF other THEN OtherSeed ELSE random_state

\* what is remembered of the first invocation that was given the integer
\* random_state, once it has ended with outcome res
Remember(res) ==
  IF first = NoOutcome /\ ~other /\ random_state # NoSeed
  THEN Record(res, resamples, boot_scores)
  ELSE first

\* the arguments of the calls: labels of any length up to MaxN, scores as
\* many, one fewer or one more, and either help, with n_bootstrap and
\* random_state left at their defaults, or a seed and a bootstrap count.
\* With random_state None every index vector can be drawn, and one resample
\* at most is asked for.
Init ==
  /\ labels \in SeqsUpTo({0, 1}, MaxN)
  /\ scores \in {s \in SeqsUpTo(0..MaxScore, MaxN) :
                   Len(s) - Len(labels) \in {-1, 0, 1}}
  /\ help \in BOOLEAN
  /\ random_state \in (IF help THEN {42} ELSE (0..MaxSeed) \cup {NoSeed})
  /\ n_bootstrap \in (IF help THEN {2000}
                      ELSE IF random_state = NoSeed THEN 0..1 ELSE 0..MaxBoot)
  /\ build = [one_class |-> "unseen", empty |-> "unseen"]
  /\ np_random = Unseeded
  /\ stdout = 0
  /\ pc = "idle"
  /\ other = FALSE
  /\ y_true = <<>>
  /\ y_score = <<>>
  /\ auc_val = NaN
  /\ rng = Unseeded
  /\ boot_scores = <<>>
  /\ iter = 0
  /\ resamples = <<>>
  /\ result = NoOutcome
  /\ first = NoOutcome
  /\ disturbed = FALSE

\* line 23: roc_auc_ci(labels, scores, help=..., n_bootstrap=...,
\* random_state=...) is called
Call ==
  /\ pc = "idle"
  /\ help => stdout < MaxPrint
  /\ pc' = "entered"
  /\ other' = FALSE
  /\ y_true' = <<>>
  /\ y_score' = <<>>
  /\ auc_val' = NaN
  /\ rng' = Unseeded
  /\ boot_scores' = <<>>
  /\ iter' = 0
  /\ resamples' = <<>>
  /\ result' = NoOutcome
  /\ UNCHANGED <<labels, scores, help, n_bootstrap, random_state, build,
                 np_random, stdout, first, disturbed>>

\* line 23, between two of those calls and after the demo has seeded
\* np.random: roc_auc_ci is called once with the same data and bootstrap
\* count and with another random_state
CallOther ==
  /\ pc = "idle"
  /\ ~help
  /\ random_state # NoSeed
  /\ first # NoOutcome
  /\ np_random # Unseeded
  /\ ~disturbed
  /\ pc' = "entered"
  /\ other' = TRUE
  /\ y_true' = <<>>
  /\ y_score' = <<>>
  /\ auc_val' = NaN
  /\ rng' = Unseeded
  /\ boot_scores' = <<>>
  /\ iter' = 0
  /\ resamples' = <<>>
  /\ result' = NoOutcome
  /\ UNCHANGED <<labels, scores, help, n_bootstrap, random_state, build,
                 np_random, stdout, first, disturbed>>

\* lines 44-46: with help the call prints the docstring and returns None;
\* nothing is computed and the other arguments are not looked at
PrintHelp ==
  /\ pc = "entered"
  /\ help
  /\ LET h == Help(stdout)
     IN  /\ stdout' = h.stdout
         /\ result' = [kind |-> h.kind]
         /\ first' = Remember([kind |-> h.kind])
  /\ pc' = "idle"
  /\ UNCHANGED <<labels, scores, help, n_bootstrap, random_state, build,
                 np_random, other, y_true, y_score, auc_val, rng, boot_scores,
                 iter, resamples, disturbed>>

\* lines 48-53, without help: the arguments are copied into arrays; the
\* point AUC, or roc_auc_score's ValueError, which ends the call; then the
\* generator, seeded from random_state, and the empty distribution
Point ==
  /\ pc = "entered"
  /\ ~help
  /\ y_true' = labels
  /\ y_score' = scores
  /\ \E seen \in Observe(build.one_class) :
       LET e == Enter(labels, scores, Seed, np_random, seen)
           told == roc_auc_score(labels, scores, "nan")
                     # roc_auc_score(labels, scores, "raise")
       IN  /\ build' = IF told THEN [build EXCEPT !.one_class = seen] ELSE build
           /\ np_random' = e.np_random
           /\ IF e.kind = "ok"
              THEN /\ auc_val' = e.auc_val
                   /\ rng' = e.rng
                   /\ pc' = "loop"
                   /\ UNCHANGED <<result, first, disturbed>>
              ELSE /\ pc' = "idle"
                   /\ result' = [kind |-> e.kind, line |-> 50]
                   /\ first' = Remember([kind |-> e.kind, line |-> 50])
                   /\ disturbed' = (disturbed \/ other)
                   /\ UNCHANGED <<auc_val, rng>>
  /\ UNCHANGED <<labels, scores, help, n_bootstrap, random_state, stdout,
                 other, boot_scores, iter, resamples>>

\* one iteration of "for _ in range(n_bootstrap)"
Iterate ==
  /\ pc = "loop"
  /\ iter < n_bootstrap
  /\ \E d \in Drawn(rng, np_random, Len(y_score)) :
       LET b == LoopBody(y_true, y_score, d, boot_scores)
       IN  /\ rng' = b.rng
           /\ np_random' = b.np_random
           /\ IF b.kind = "ok"
              THEN /\ iter' = iter + 1
                   /\ resamples' = Append(resamples, b.draw)
                   /\ boot_scores' = b.boot_scores
                   /\ UNCHANGED <<pc, result, first, disturbed>>
              ELSE /\ pc' = "idle"
                   /\ result' = [kind |-> b.kind, line |-> b.line]
                   /\ first' = Remember([kind |-> b.kind, line |-> b.line])
                   /\ disturbed' = (disturbed \/ other)
                   /\ UNCHANGED <<iter, resamples, boot_scores>>
  /\ UNCHANGED <<labels, scores, help, n_bootstrap, random_state, build,
                 stdout, other, y_true, y_score, auc_val>>

\* the loop is over: lines 62-66, percentiles and return
Return ==
  /\ pc = "loop"
  /\ iter >= n_bootstrap
  /\ \E seen \in Observe(build.empty) :
       LET f == Finish(auc_val, boot_scores, seen)
           told == Finish(auc_val, boot_scores, "nan")
                     # Finish(auc_val, boot_scores, "raise")
       IN  /\ build' = IF told THEN [build EXCEPT !.empty = seen] ELSE build
           /\ result' = f
           /\ first' = Remember(f)
  /\ disturbed' = (disturbed \/ other)
  /\ pc' = "idle"
  /\ UNCHANGED <<labels, scores, help, n_bootstrap, random_state, np_random,
                 stdout, other, y_true, y_score, auc_val, rng, boot_scores,
                 iter, resamples>>

\* the outputs that the six np.random.normal(mu, 1, 150) of lines 338-355
\* take after np.random.seed(2025): a pair of variates takes four outputs
\* for each trial of the polar method, 450 pairs take 573 trials
DemoTaken == 2292

\* elsewhere in the process, between calls: lines 338-355 of the demo, the
\* scores of its datasets are drawn from the np.random that line 329 seeded
DemoData ==
  /\ pc = "idle"
  /\ np_random = RandomState(2025)
  /\ np_random' = [np_random EXCEPT !.pos = @ + DemoTaken]
  /\ UNCHANGED <<labels, scores, help, n_bootstrap, random_state, build,
                 stdout, pc, other, y_true, y_score, auc_val, rng, boot_scores,
                 iter, resamples, result, first, disturbed>>

\* elsewhere in the process, between calls: line 329 of the demo,
\* np.random.seed(2025)
Demo ==
  /\ pc = "idle"
  /\ np_random' = RandomState(2025)
  /\ UNCHANGED <<labels, scores, help, n_bootstrap, random_state, build,
                 stdout, pc, other, y_true, y_score, auc_val, rng, boot_scores,
                 iter, resamples, result, first, disturbed>>

Next ==
  Call \/ CallOther \/ PrintHelp \/ Point \/ Iterate \/ Return \/ Demo \/ DemoData

Spec == Init /\ [][Next]_vars

\* ------------------------------------------ lines 62-66 on any distribution
\* four observations that show every pair of a label and a score
AllPairs == [labels |-> <<0, 0, 1, 1>>, scores |-> <<0, 1, 0, 1>>]

\* index vectors over them: one that picks a single class, and one for each
\* of the AUCs 1, 0, 1/2, 3/4 and 1/4
Picks == {<<0, 0, 0, 0>>, <<0, 0, 3, 3>>, <<1, 1, 2, 2>>, <<0, 1, 2, 3>>,
          <<0, 0, 2, 3>>, <<1, 1, 2, 3>>}

\* the least number of values above one for which both percentiles fall on a
\* value of the ordered distribution: 2.5 * 40 / 100 = 1, 97.5 * 40 / 100 = 39
ExactN == ((100 * 2) \div 5) + 1

\* ExactN index vectors, the first k of AUC 1 and the others of AUC 0
Steps(k) == [j \in 1..ExactN |-> IF j <= k THEN <<0, 0, 3, 3>> ELSE <<1, 1, 2, 2>>]

\* what the loop of lines 55-60 has built when a generator seeded from
\* entropy has drawn the index vectors vs, in this order
RECURSIVE Looped(_)
Looped(vs) ==
  IF vs = <<>> THEN [resamples |-> <<>>, boot_scores |-> <<>>]
  ELSE LET before == Looped(SubSeq(vs, 1, Len(vs) - 1))
           d == [kind |-> "ok", indices |-> vs[Len(vs)], rng |-> Unseeded,
                 np_random |-> Unseeded]
           b == LoopBody(AllPairs.labels, AllPairs.scores, d, before.boot_scores)
       IN  [resamples |-> Append(before.resamples, b.draw),
            boot_scores |-> b.boot_scores]

\* the first call of a process, roc_auc_ci(labels, scores, n_bootstrap,
\* random_state=None) on the four observations, has reached line 62: the
\* generator may have drawn any index vectors; those of Picks are told apart,
\* up to MaxBoot + 2 of them in any order, or ExactN of them
InitDistribution ==
  /\ labels = AllPairs.labels
  /\ scores = AllPairs.scores
  /\ help = FALSE
  /\ random_state = NoSeed
  /\ \E vs \in SeqsUpTo(Picks, MaxBoot + 2) \cup {Steps(k) : k \in 0..ExactN} :
       /\ n_bootstrap = Len(vs)
       /\ resamples = Looped(vs).resamples
       /\ boot_scores = Looped(vs).boot_scores
  /\ build = [one_class |-> "unseen", empty |-> "unseen"]
  /\ np_random = Unseeded
  /\ stdout = 0
  /\ pc = "loop"
  /\ other = FALSE
  /\ y_true = labels
  /\ y_score = scores
  /\ auc_val = roc_auc_score(labels, scores, "raise").val
  /\ rng = RandomState(random_state)
  /\ iter = n_bootstrap
  /\ result = NoOutcome
  /\ first = NoOutcome
  /\ disturbed = FALSE

SpecDistribution == InitDistribution /\ [][Return]_vars

\* ================================================================ claims
\* valid input: equal lengths, N >= 2, both classes, n_bootstrap positive
ValidInput ==
  /\ Len(labels) = Len(scores)
  /\ Len(labels) >= 2
  /\ unique(labels) = {0, 1}
  /\ n_bootstrap >= 1

\* the latest invocation has returned a result
Returned == pc = "idle" /\ result.kind = "ok"

\* the latest invocation has returned, a result or None
ReturnedNormally == pc = "idle" /\ result.kind \in {"ok", "None"}

\* the rank-based (Mann-Whitney) AUC: over the (positive, negative) pairs,
\* 1 when the positive scores higher, 1/2 when the scores tie
MannWhitney(yt, ys) ==
  LET pos == {i \in 1..Len(yt) : yt[i] = 1}
      neg == {i \in 1..Len(yt) : yt[i] = 0}
      wins == Cardinality({p \in pos \X neg : ys[p[1]] > ys[p[2]]})
      ties == Cardinality({p \in pos \X neg : ys[p[1]] = ys[p[2]]})
  IN  Rat(2 * wins + ties, 2 * Cardinality(pos) * Cardinality(neg))

\* the k-th smallest value of a, k in 1..Len(a)
OrderStat(a, k) ==
  CHOOSE v \in Range(a) :
    /\ Cardinality({i \in 1..Len(a) : RatLT(a[i], v)}) < k
    /\ Cardinality({i \in 1..Len(a) : RatLE(a[i], v)}) >= k

\* the pn/pd quantile of a by linear interpolation between the order
\* statistics next to position (pn/pd) * (n - 1), counted from 0
Interpolated(a, pn, pd) ==
  LET n == Len(a)
      k == ((n - 1) * pn) \div pd
      r == ((n - 1) * pn) % pd
      lo == OrderStat(a, k + 1)
      hi == IF r = 0 THEN lo ELSE OrderStat(a, k + 2)
  IN  RatAdd(RatMul(lo, Rat(pd - r, pd)), RatMul(hi, Rat(r, pd)))

\* C1 as stated, on the results whose bounds are percentiles of a non-empty
\* distribution: for every valid input for which such a result is returned,
\* 0 <= lower <= auc <= upper <= 1
C1_Original ==
  (ValidInput /\ Returned /\ boot_scores # <<>>) =>
    /\ FloatLE(Zero, result.CI[1])
    /\ FloatLE(result.CI[1], result.AUC)
    /\ FloatLE(result.AUC, result.CI[3])
    /\ FloatLE(result.CI[3], One)

\* C1 amended: for every valid input for which a result is returned, the
\* point AUC lies in [0, 1] and the bounds are both NaN, which they are
\* exactly when no resample held both classes, or satisfy
\* 0 <= lower <= upper <= 1; the point AUC need not lie between the bounds
C1_Bounds ==
  (ValidInput /\ Returned) =>
    /\ FloatLE(Zero, result.AUC)
    /\ FloatLE(result.AUC, One)
    /\ IF \A k \in 1..Len(resamples) : ~resamples[k].used
       THEN result.CI[1] = NaN /\ result.CI[3] = NaN
       ELSE /\ FloatLE(Zero, result.CI[1])
            /\ FloatLE(result.CI[1], result.CI[3])
            /\ FloatLE(result.CI[3], One)

\* a valid call returned bounds, taken from two bootstrap values or more,
\* that do not contain the point AUC
C1_Witness ==
  /\ ValidInput
  /\ Returned
  /\ Len(boot_scores) >= 2
  /\ \/ ~FloatLE(result.CI[1], result.AUC)
     \/ ~FloatLE(result.AUC, result.CI[3])

\* C2 as stated, on input of equal lengths with both classes: when the loop
\* ends with an empty bootstrap distribution the call fails with
\* InsufficientBootstrapSamples and returns no result
C2_EmptyFails ==
  [][(/\ Len(labels) = Len(scores)
      /\ unique(labels) = {0, 1}
      /\ pc = "loop"
      /\ iter >= n_bootstrap
      /\ boot_scores = <<>>
      /\ pc' = "idle")
       => result'.kind = "InsufficientBootstrapSamples"]_vars

\* the input is not valid: lengths differ, N < 2 or fewer than two classes
InvalidInput ==
  \/ Len(labels) # Len(scores)
  \/ Len(labels) < 2
  \/ Cardinality(unique(labels)) < 2

\* C3 as stated: on invalid input a call never reaches the bootstrap loop
\* nor draws a resample, and it ends with the invalid-input error
\* (ValueError, raised at line 50), never with a result
C3_InvalidRejected ==
  InvalidInput =>
    /\ pc # "loop"
    /\ resamples = <<>>
    /\ result.kind \in {"no outcome", "ValueError"}

\* C4: with an integer random_state, every invocation with the arguments of
\* the first draws the same index vectors, builds the same bootstrap
\* distribution and ends with the same outcome as the first, whatever was
\* done to np.random and whichever call with another random_state was made in
\* between
C4_Deterministic ==
  (/\ random_state # NoSeed
   /\ pc = "idle"
   /\ ~other
   /\ result # NoOutcome) =>
    Record(result, resamples, boot_scores) = first

\* the first call was repeated after np.random had been seeded and a call
\* with another random_state had ended, and it returned a result from
\* resamples used and skipped
C4_Witness ==
  /\ random_state # NoSeed
  /\ Returned
  /\ ~other
  /\ disturbed
  /\ np_random # Unseeded
  /\ Len(boot_scores) >= 2
  /\ Len(resamples) > Len(boot_scores)

\* C5: the point AUC returned for a valid input is the Mann-Whitney value of
\* the full observation set, and labels [0,1,1,0] with scores
\* [0.2,0.8,0.7,0.3] (in tenths) give 1
C5_PointAUC ==
  /\ (ValidInput /\ Returned) => result.AUC = MannWhitney(labels, scores)
  /\ \A seen \in Observe(build.one_class) :
       roc_auc_score(<<0, 1, 1, 0>>, <<2, 8, 7, 3>>, seen) = [kind |-> "ok", val |-> One]

\* a valid call returned and a positive and a negative tie on score
C5_Witness ==
  /\ ValidInput
  /\ Returned
  /\ \E i, j \in 1..Len(labels) :
       labels[i] = 1 /\ labels[j] = 0 /\ scores[i] = scores[j]
  /\ \E i, j \in 1..Len(labels) :
       labels[i] = 1 /\ labels[j] = 0 /\ scores[i] > scores[j]

TwoClass(log) ==
  {k \in 1..Len(log) :
     {labels[log[k].indices[j] + 1] : j \in 1..Len(log[k].indices)} = {0, 1}}

\* C7, state part: the loop has drawn one resample per iteration and never
\* more than n_bootstrap; the distribution holds one value per two-class
\* resample; at loop exit exactly n_bootstrap resamples have been drawn
C7_Counts ==
  pc = "loop" =>
    /\ Len(resamples) = iter
    /\ iter <= n_bootstrap
    /\ Len(boot_scores) = Cardinality(TwoClass(resamples))
    /\ Len(boot_scores) <= n_bootstrap
    /\ ~(iter < n_bootstrap) => Len(resamples) = n_bootstrap

\* C7, step part: an iteration draws one resample and leaves the
\* distribution alone or appends one value to it
C7_Step ==
  (pc = "loop" /\ pc' = "loop") =>
    /\ Len(resamples') = Len(resamples) + 1
    /\ \/ boot_scores' = boot_scores
       \/ /\ Len(boot_scores') = Len(boot_scores) + 1
          /\ SubSeq(boot_scores', 1, Len(boot_scores)) = boot_scores

\* C7: the bootstrap loop draws exactly n_bootstrap resamples, skips the
\* one-class ones without redrawing, adds one value per two-class resample,
\* and the distribution only grows by appending
C7_Loop == []C7_Counts /\ [][C7_Step]_vars

\* the loop has ended having skipped a resample and used another
C7_Witness ==
  /\ pc = "loop"
  /\ iter = n_bootstrap
  /\ boot_scores # <<>>
  /\ Len(boot_scores) < n_bootstrap

\* the AUC values of the resamples used, in the order drawn
RECURSIVE UsedAUCs(_)
UsedAUCs(log) ==
  IF log = <<>> THEN <<>>
  ELSE LET r == log[Len(log)]
           before == UsedAUCs(SubSeq(log, 1, Len(log) - 1))
       IN  IF r.used THEN Append(before, MannWhitney(r.sel_true, r.sel_score))
           ELSE before

\* C8: with N observations every resample is one vector of N indices in
\* 0..N-1 that selects the labels and the scores alike: the j-th resampled
\* pair is the caller's pair at the j-th index, hence one of the caller's
\* pairs, and each bootstrap AUC is the AUC of the N pairs of its resample
C8_Aligned ==
  Len(labels) = Len(scores) =>
    /\ \A k \in 1..Len(resamples) :
         LET r == resamples[k]
             N == Len(scores)
         IN  /\ Len(r.indices) = N
             /\ \A j \in 1..N : r.indices[j] \in 0..(N - 1)
             /\ Len(r.sel_true) = N
             /\ \A j \in 1..N : r.sel_true[j] = labels[r.indices[j] + 1]
             /\ r.used =>
                  /\ Len(r.sel_score) = N
                  /\ \A j \in 1..N : r.sel_score[j] = scores[r.indices[j] + 1]
                  /\ \A j \in 1..N : \E i \in 1..N :
                       labels[i] = r.sel_true[j] /\ scores[i] = r.sel_score[j]
    /\ boot_scores = UsedAUCs(resamples)

\* a used resample repeats an observation and differs from the original order
C8_Witness ==
  /\ Len(labels) = Len(scores)
  /\ \E k \in 1..Len(resamples) :
       /\ resamples[k].used
       /\ \E i, j \in 1..Len(scores) :
            i # j /\ resamples[k].indices[i] = resamples[k].indices[j]
       /\ resamples[k].sel_score # scores

\* C9: for a non-empty distribution the bounds are the 2.5th and 97.5th
\* percentiles by linear interpolation at position p/100 * (n - 1) of the
\* sorted values; lower <= upper, both lie between the smallest and the
\* largest bootstrap AUC, and they are equal for a single value
C9_Percentiles ==
  (Returned /\ boot_scores # <<>>) =>
    LET n == Len(boot_scores)
    IN  /\ result.CI[1] = Interpolated(boot_scores, 1, 40)
        /\ result.CI[3] = Interpolated(boot_scores, 39, 40)
        /\ RatLE(result.CI[1], result.CI[3])
        /\ RatLE(OrderStat(boot_scores, 1), result.CI[1])
        /\ RatLE(result.CI[3], OrderStat(boot_scores, n))
        /\ n = 1 => result.CI[1] = result.CI[3]

\* bounds were interpolated between bootstrap values that differ and were
\* not appended in increasing order
C9_Witness ==
  /\ Returned
  /\ Len(boot_scores) >= 3
  /\ sort(boot_scores) # boot_scores
  /\ result.CI[1] # result.CI[3]
  /\ result.CI[1] \notin Range(boot_scores)
  /\ result.CI[3] \notin Range(boot_scores)

\* the point AUC of the full observation set: the Mann-Whitney value, NaN
\* when a class is missing
PointAUC(yt, ys) ==
  IF unique(yt) = {0, 1} THEN MannWhitney(yt, ys) ELSE NaN

\* C10 as stated: a call that returns returns the point AUC of the full
\* observation set, a function of labels and scores alone, as its AUC and as
\* the middle of CI
C10_Original ==
  ReturnedNormally =>
    /\ result.kind = "ok"
    /\ result.CI[2] = result.AUC
    /\ result.AUC = PointAUC(labels, scores)

\* C10 amended: a call without help that returns returns the point AUC of
\* the full observation set, a function of labels and scores alone, as its
\* AUC and as the middle of CI; a call with help returns None
C10_PointEstimate ==
  ReturnedNormally =>
    IF help THEN result = [kind |-> "None"]
    ELSE /\ result.kind = "ok"
         /\ result.CI[2] = result.AUC
         /\ result.AUC = PointAUC(labels, scores)

\* a result was returned whose point AUC differs from every bootstrap AUC
C10_Witness ==
  /\ Returned
  /\ boot_scores # <<>>
  /\ \A k \in 1..Len(boot_scores) : boot_scores[k] # result.AUC
  /\ result.CI[2] = MannWhitney(labels, scores)
====
